---- MODULE Spec2Model ----
(***************************************************************************)
(* Model of cursed/modules/networking: the WireGuard tunnel descriptor     *)
(* (TunnelInterface / WireguardTunnel) acting on the kernel's interface    *)
(* registry, and the nftables value objects (NFTablesMatch,                *)
(* NFTablesStatement).                                                     *)
(*                                                                         *)
(* Every handler is one action: the program is single-threaded and each    *)
(* call returns or raises before the caller proceeds.  The kernel calls a  *)
(* handler makes are recorded, in order, in last.log.                      *)
(***************************************************************************)
EXTENDS Integers, Sequences, FiniteSets, TLC

VARIABLES
    desc,      \* descriptor id -> the TunnelInterface object's fields
    kernel,    \* the kernel's interface registry: a set of link records
    last,      \* the most recent call: operation, outcome, kernel calls made
    torn,      \* history: the live descriptors that were set up and torn down
    stmt,      \* the most recent NFTablesStatement construction / conversion
    match      \* the most recent NFTablesMatch construction / conversion

vars == <<desc, kernel, last, torn, stmt, match>>

-----------------------------------------------------------------------------
(* Bounds of the model *)

\* number of descriptor objects the program constructs
NumDesc == 2

Desc == 1..NumDesc

\* creator of an interface this program did not create (a link's creator is
\* the set holding the descriptor whose setup_interface() created it)
Foreign == {}

CreatedBy(d) == {d}

-----------------------------------------------------------------------------
(* Values *)

\* Python's None for an optional string: absent is <<>>, present is <<s>>
None == <<>>

Some(s) == <<s>>

\* the attribute ifname before anything assigned it (auto_name = False)
NoName == ""

\* an ipaddress.IPv4Network / IPv6Network value
Net(a, p) == [addr |-> a, prefixlen |-> p]

\* IPv4Network.with_prefixlen: "<address>/<prefix length>"
with_prefixlen(n) == n.addr \o "/" \o ToString(n.prefixlen)

\* the local_addrs list the descriptors are constructed with
LocalAddrs == << Net("192.0.0.1", 32), Net("fd00::1", 128) >>

\* the peer_addrs list the descriptors are constructed with
PeerAddrs == << Net("192.0.0.2", 32) >>

\* names a caller assigns to ifname itself (run_tests.py: tun.ifname = ...);
\* the name is one the allocator can hand out too
ExplicitNames == {"sown-wg0"}

\* latest-handshake time (epoch seconds) WireGuard reports for a configured
\* peer that never completed a handshake
NeverHandshaked == 0

\* is_peer_alive: a peer is dead after this many seconds without a handshake
DeadTime == 300

\* moments at which the program reads the clock, and at which peers handshake
HandshakeTimes == {1000}

Nows == {1299, 1300, 1301}

-----------------------------------------------------------------------------
(* The kernel interface registry (pyroute2 IPRoute / NDB) *)

\* WireguardTunnel.getbasename
getbasename == "sown-wg"

\* names of the interfaces other processes own
ForeignNames == { getbasename \o ToString(0), getbasename \o ToString(1) }

\* A link of the registry.  The interface index the kernel gives a link is
\* only ever handed back to the kernel to designate that link, so a link
\* stands for its own index.
NewLink(ifname, creator) ==
    [ifname |-> ifname, creator |-> creator,
     addrs |-> {}, up |-> FALSE, peer |-> None, allowed_ips |-> {}]

\* ipr.link_lookup(ifname=...): the links carrying that name
link_lookup(kern, ifname) == { l \in kern : l.ifname = ifname }

\* interface[0]: the first link a lookup returned
FirstOf(interface) == CHOOSE l \in interface : TRUE

\* ipr.link("delete", index=...)
link_delete_Nothing(kern, link) == kern

link_delete(kern, link) == kern \ {link}

\* one kernel call, as recorded in last.log
Call(name, arg) == [call |-> name, arg |-> arg]

\* the outcome record of a call
Outcome(op, d, ok, err, ret, log) ==
    [op |-> op, d |-> d, ok |-> ok, err |-> err, ret |-> ret, log |-> log]

-----------------------------------------------------------------------------
(* TunnelInterface.__get_next_int_name_for_type *)

\* one run of the probing loop from suffix ifidx on; returns the name and the
\* lookups made
RECURSIVE NameProbe(_, _, _)
NameProbe(kern, ifidx, log) ==
    LET ifname    == getbasename \o ToString(ifidx)
        interface == link_lookup(kern, ifname)
        log2      == Append(log, Call("link_lookup", ifname))
    IN  IF Cardinality(interface) > 0
           THEN NameProbe(kern, ifidx + 1, log2)
           ELSE [ifname |-> ifname, log |-> log2]

\* the name built from ifidx as it is after the loop's last increment
get_next_int_name_for_type_Late(kern) ==
    LET r == NameProbe(kern, 0, <<>>)
    IN  [r EXCEPT !.ifname = getbasename \o ToString(Len(r.log))]

\* a probing that makes every lookup twice
get_next_int_name_for_type_Rescan(kern) ==
    LET r == NameProbe(kern, 0, <<>>)
    IN  [r EXCEPT !.log = r.log \o r.log]

get_next_int_name_for_type(kern) == NameProbe(kern, 0, <<>>)

-----------------------------------------------------------------------------
(* Initial state *)

NoCall == Outcome("none", 0, TRUE, "", "", <<>>)

\* no NFTablesStatement / NFTablesMatch object yet
NoStatement == [phase |-> "none", s_type |-> "", extra |-> None, dict |-> {}]

NoMatch == [phase |-> "none", left |-> "", op |-> "", right |-> "", dict |-> {}]

Unconstructed ==
    [phase |-> "unconstructed", ifname |-> NoName, peer_addrs |-> <<>>,
     local_addrs |-> <<>>, interface_created |-> FALSE]

\* the object is gone
Released ==
    [phase |-> "released", ifname |-> NoName, peer_addrs |-> <<>>,
     local_addrs |-> <<>>, interface_created |-> FALSE]

ForeignLinks(names) == { NewLink(n, Foreign) : n \in names }

TunnelInit ==
    /\ desc = [d \in Desc |-> Unconstructed]
    /\ \E names \in SUBSET ForeignNames : kernel = ForeignLinks(names)
    /\ last = NoCall
    /\ torn = {}

RulesIdle ==
    /\ stmt = NoStatement
    /\ match = NoMatch

Init == TunnelInit /\ RulesIdle

-----------------------------------------------------------------------------
(* TunnelInterface.__init__ / WireguardTunnel.__init__ *)

\* descriptors are numbered in the order the program constructs them
Construct(d, auto_name) ==
    /\ desc[d].phase = "unconstructed"
    /\ \A e \in Desc : e < d => desc[e].phase # "unconstructed"
    /\ LET probe == get_next_int_name_for_type(kernel)
       IN  /\ desc' = [desc EXCEPT ![d] =
                          [phase |-> "live",
                           ifname |-> IF auto_name THEN probe.ifname ELSE NoName,
                           peer_addrs |-> PeerAddrs,
                           local_addrs |-> LocalAddrs,
                           interface_created |-> FALSE]]
           /\ last' = Outcome("__init__", d, TRUE, "", "",
                              IF auto_name THEN probe.log ELSE <<>>)
    /\ UNCHANGED <<kernel, stmt, match>>

\* the caller's assignment of a name to a descriptor built with auto_name=False
SetIfname(d, ifname) ==
    /\ desc[d].phase = "live"
    /\ desc[d].ifname = NoName
    /\ desc' = [desc EXCEPT ![d].ifname = ifname]
    /\ last' = Outcome("set_ifname", d, TRUE, "", "", <<>>)
    /\ UNCHANGED <<kernel, stmt, match>>

-----------------------------------------------------------------------------
(* WireguardTunnel.setup_interface *)

\* the kernel calls of one setup, in the order the code makes them
SetupSteps_UpFirst(dsc) ==
    << Call("create", dsc.ifname), Call("set_up", dsc.ifname) >>
    \o [i \in 1..Len(dsc.local_addrs) |->
           Call("add_ip", with_prefixlen(dsc.local_addrs[i]))]
    \o << Call("wg_set", dsc.ifname) >>

SetupSteps(dsc) ==
    << Call("create", dsc.ifname) >>
    \o [i \in 1..Len(dsc.local_addrs) |->
           Call("add_ip", with_prefixlen(dsc.local_addrs[i]))]
    \o << Call("set_up", dsc.ifname), Call("wg_set", dsc.ifname) >>

\* the effect of one successful kernel call on the link being set up
ApplyCall_NoPeer(link, c, dsc) ==
    CASE c.call = "add_ip" -> [link EXCEPT !.addrs = @ \cup {c.arg}]
      [] c.call = "set_up" -> [link EXCEPT !.up = TRUE]
      [] OTHER -> link

ApplyCall(link, c, dsc) ==
    CASE c.call = "add_ip" -> [link EXCEPT !.addrs = @ \cup {c.arg}]
      [] c.call = "set_up" -> [link EXCEPT !.up = TRUE]
      [] c.call = "wg_set" ->
            [link EXCEPT !.peer = Some(NeverHandshaked),
                         !.allowed_ips =
                             { with_prefixlen(dsc.peer_addrs[i]) :
                                   i \in 1..Len(dsc.peer_addrs) }]
      [] OTHER -> link

\* the link after the first k calls of steps succeeded
RECURSIVE ApplySteps(_, _, _, _)
ApplySteps(link, steps, k, dsc) ==
    IF k = 0 THEN link
    ELSE ApplyCall(ApplySteps(link, steps, k - 1, dsc), steps[k], dsc)

\* ndb.interfaces.create refuses a name the registry already holds
NameTaken_Never(kern, ifname) == FALSE

NameTaken(kern, ifname) == link_lookup(kern, ifname) # {}

\* interface_created after a setup whose f-th call raised (f = 0: none did):
\* the assignment is the last statement, reached only when nothing raised
FlagAfterSetup_First(dsc, f) == TRUE

FlagAfterSetup(dsc, f) == IF f = 0 THEN TRUE ELSE dsc.interface_created

\* fail = 0: every call succeeds; fail = k > 0: the k-th call of SetupSteps
\* raises.  create, add_ip... and set(state='up') are one NDB transaction,
\* which leaves no link behind when it fails; wg.set runs after it committed.
\* Returns the new registry, the new interface_created and the outcome.
SetupResult(kern, dsc, d, fail) ==
    LET steps  == SetupSteps(dsc)
        n      == Len(steps)
        f      == IF NameTaken(kern, dsc.ifname) THEN 1 ELSE fail
        done   == IF f = 0 THEN n ELSE f - 1
        link   == ApplySteps(NewLink(dsc.ifname, CreatedBy(d)), steps, done, dsc)
        log    == SubSeq(steps, 1, IF f = 0 THEN n ELSE f)
    IN  IF dsc.ifname = NoName
           THEN [kernel |-> kern, interface_created |-> FlagAfterSetup(dsc, 1),
                 outcome |-> Outcome("setup_interface", d, FALSE, "AttributeError", "", <<>>)]
        ELSE IF f = 0
           THEN [kernel |-> kern \cup {link}, interface_created |-> FlagAfterSetup(dsc, f),
                 outcome |-> Outcome("setup_interface", d, TRUE, "", "", log)]
        ELSE IF f < n
           THEN [kernel |-> kern, interface_created |-> FlagAfterSetup(dsc, f),
                 outcome |-> Outcome("setup_interface", d, FALSE, steps[f].call, "", log)]
        ELSE [kernel |-> kern \cup {link}, interface_created |-> FlagAfterSetup(dsc, f),
              outcome |-> Outcome("setup_interface", d, FALSE, steps[f].call, "", log)]

\* the calls of a setup that can fail for a reason of the kernel's own
\* (a create of a name that exists, or with no name, fails whatever is chosen)
FailPoints(kern, dsc) ==
    IF dsc.ifname = NoName \/ NameTaken(kern, dsc.ifname)
       THEN {1}
       ELSE 0..Len(SetupSteps(dsc))

setup_interface(d) ==
    /\ desc[d].phase = "live"
    /\ \E fail \in FailPoints(kernel, desc[d]) :
          LET r == SetupResult(kernel, desc[d], d, fail)
          IN  /\ kernel' = r.kernel
              /\ desc' = [desc EXCEPT ![d].interface_created = r.interface_created]
              /\ last' = r.outcome
    /\ UNCHANGED <<stmt, match>>

-----------------------------------------------------------------------------
(* WireguardTunnel.delete_interface *)

\* the early return: nothing to delete unless interface_created is True
NothingToDelete_Never(dsc) == FALSE

NothingToDelete(dsc) == dsc.interface_created # TRUE

\* interface_created when the lookup found nothing: the RuntimeError is
\* raised before the flag is assigned
FlagWhenMissing_Cleared(dsc) == FALSE

FlagWhenMissing(dsc) == dsc.interface_created

\* delFails: whether the kernel refuses ipr.link("delete", ...)
DeleteResult(kern, dsc, d, delFails) ==
    LET interface == link_lookup(kern, dsc.ifname)
        lookup    == Call("link_lookup", dsc.ifname)
        delete    == Call("link_delete", dsc.ifname)
    IN  IF NothingToDelete(dsc)
           THEN [kernel |-> kern, interface_created |-> dsc.interface_created,
                 outcome |-> Outcome("delete_interface", d, TRUE, "", "", <<>>)]
        ELSE IF Cardinality(interface) = 0
           THEN [kernel |-> kern, interface_created |-> FlagWhenMissing(dsc),
                 outcome |-> Outcome("delete_interface", d, FALSE, "RuntimeError", "",
                                     << lookup >>)]
        ELSE IF delFails
           THEN [kernel |-> kern, interface_created |-> dsc.interface_created,
                 outcome |-> Outcome("delete_interface", d, FALSE, "link_delete", "",
                                     << lookup, delete >>)]
        ELSE [kernel |-> link_delete(kern, FirstOf(interface)),
              interface_created |-> FALSE,
              outcome |-> Outcome("delete_interface", d, TRUE, "", "",
                                  << lookup, delete >>)]

\* whether the kernel may refuse the deletion: only a deletion that is
\* attempted can be refused
DeleteRefusals(kern, dsc) ==
    IF dsc.interface_created = TRUE /\ link_lookup(kern, dsc.ifname) # {}
       THEN BOOLEAN
       ELSE {FALSE}

delete_interface(d) ==
    /\ desc[d].phase = "live"
    /\ \E delFails \in DeleteRefusals(kernel, desc[d]) :
          LET r == DeleteResult(kernel, desc[d], d, delFails)
          IN  /\ kernel' = r.kernel
              /\ desc' = [desc EXCEPT ![d].interface_created = r.interface_created]
              /\ last' = r.outcome
    /\ UNCHANGED <<stmt, match>>

\* TunnelInterface.__del__: the object is released; an exception raised by
\* delete_interface() inside __del__ is not propagated
Release(d) ==
    /\ desc[d].phase = "live"
    /\ \E delFails \in DeleteRefusals(kernel, desc[d]) :
          LET r == DeleteResult(kernel, desc[d], d, delFails)
          IN  /\ kernel' = r.kernel
              /\ desc' = [desc EXCEPT ![d] = Released]
              /\ last' = [r.outcome EXCEPT !.op = "__del__"]
    /\ UNCHANGED <<stmt, match>>

-----------------------------------------------------------------------------
(* WireguardTunnel.__get_peer_info / is_peer_alive *)

\* wg.info(ifname) ... ["WGDEVICE_A_PEERS"][0]: the single peer's record, or a
\* failure when there is no such device or it has no peer
PeerInfoResult_Defaulting(kern, ifname) ==
    LET links == link_lookup(kern, ifname)
    IN  IF ifname = NoName \/ links = {} \/ FirstOf(links).peer = None
           THEN [ok |-> TRUE, err |-> "", peer |-> Some(NeverHandshaked)]
           ELSE [ok |-> TRUE, err |-> "", peer |-> FirstOf(links).peer]

PeerInfoResult(kern, ifname) ==
    LET links == link_lookup(kern, ifname)
    IN  IF ifname = NoName THEN [ok |-> FALSE, err |-> "AttributeError", peer |-> None]
        ELSE IF links = {} THEN [ok |-> FALSE, err |-> "NoSuchDevice", peer |-> None]
        ELSE LET l == FirstOf(links)
             IN  IF l.peer = None
                    THEN [ok |-> FALSE, err |-> "NoPeers", peer |-> None]
                    ELSE [ok |-> TRUE, err |-> "", peer |-> l.peer]

\* peer_info["WGPEER_A_LAST_HANDSHAKE_TIME"]["latest handshake"]: the text
\* WireGuard reports for a handshake time, to the second
latest_handshake(t) == ToString(t)

\* the handshake times a report can carry
ReportedTimes == HandshakeTimes \cup {NeverHandshaked}

\* dateutil.parser.parse: the time a text denotes
dateutil_parse(text) == CHOOSE t \in ReportedTimes : ToString(t) = text

\* (now - last_handshake).total_seconds() <= 300
PeerAliveAt_Strict(now, last_handshake) == now - last_handshake < DeadTime

PeerAliveAt(now, last_handshake) == now - last_handshake <= DeadTime

\* a query that clears interface_created
is_peer_alive_Forgetting(d) ==
    /\ desc[d].phase = "live"
    /\ desc' = [desc EXCEPT ![d].interface_created = FALSE]
    /\ last' = Outcome("is_peer_alive", d, FALSE, "NoSuchDevice", "", <<>>)
    /\ UNCHANGED <<kernel, stmt, match>>

\* the clock is read after the peer information was obtained and parsed
is_peer_alive(d) ==
    /\ desc[d].phase = "live"
    /\ \E now \in Nows :
          LET peer_info == PeerInfoResult(kernel, desc[d].ifname)
              last_handshake == dateutil_parse(latest_handshake(peer_info.peer[1]))
          IN  last' = IF peer_info.ok
                         THEN Outcome("is_peer_alive", d, TRUE, "",
                                      IF PeerAliveAt(now, last_handshake)
                                         THEN "True" ELSE "False",
                                      << Call("wg_info", desc[d].ifname),
                                         Call("now", ToString(now)) >>)
                         ELSE Outcome("is_peer_alive", d, FALSE, peer_info.err, "",
                                      IF desc[d].ifname = NoName THEN <<>>
                                      ELSE << Call("wg_info", desc[d].ifname) >>)
    /\ UNCHANGED <<desc, kernel, stmt, match>>

-----------------------------------------------------------------------------
(* Other actors on the host: the interface namespace is host-wide *)

\* another process creates an interface
ExternalCreate(ifname) ==
    /\ link_lookup(kernel, ifname) = {}
    /\ kernel' = kernel \cup {NewLink(ifname, Foreign)}
    /\ last' = Outcome("external", 0, TRUE, "", "", <<>>)
    /\ UNCHANGED <<desc, torn, stmt, match>>

\* the interface of a set-up descriptor vanishes outside the program's control
Vanish(d) ==
    /\ desc[d].phase = "live"
    /\ desc[d].interface_created = TRUE
    /\ \E l \in link_lookup(kernel, desc[d].ifname) : kernel' = link_delete(kernel, l)
    /\ last' = Outcome("external", 0, TRUE, "", "", <<>>)
    /\ UNCHANGED <<desc, torn, stmt, match>>

\* another process (or an operator) deletes an interface
ExternalDelete(link) ==
    /\ link \in kernel
    /\ kernel' = link_delete(kernel, link)
    /\ last' = Outcome("external", 0, TRUE, "", "", <<>>)
    /\ UNCHANGED <<desc, torn, stmt, match>>

\* the remote peer of a configured link completes a handshake
PeerHandshake(link, t) ==
    /\ link \in kernel
    /\ link.peer = Some(NeverHandshaked)
    /\ kernel' = (kernel \ {link}) \cup {[link EXCEPT !.peer = Some(t)]}
    /\ last' = Outcome("external", 0, TRUE, "", "", <<>>)
    /\ UNCHANGED <<desc, torn, stmt, match>>

-----------------------------------------------------------------------------
(* NFTablesMatch *)

OperatorNames ==
    {"EQUAL", "NOT_EQUAL", "LESS_THAN", "GREATER_THAN", "LESS_EQUAL",
     "GREATER_EQUAL", "NONE"}

\* NFTablesMatch.OperatorType: member name -> value
OperatorType(op) ==
    CASE op = "EQUAL"         -> "eq"
      [] op = "NOT_EQUAL"     -> "ne"
      [] op = "LESS_THAN"     -> "lt"
      [] op = "GREATER_THAN"  -> "gt"
      [] op = "LESS_EQUAL"    -> "le"
      [] op = "GREATER_EQUAL" -> "ge"
      [] op = "NONE"          -> ""

\* a Python dict is the set of its <<key, value>> items
Item(key, value) == <<key, value>>

NFTablesMatch_init(left, op, right) ==
    [phase |-> "constructed", left |-> left, op |-> op, right |-> right, dict |-> {}]

\* the dict with the two operands exchanged
NFTablesMatch_convert_to_dict_Swapped(m) ==
    { Item("left", m.right), Item("right", m.left), Item("op", OperatorType(m.op)) }

NFTablesMatch_convert_to_dict(m) ==
    { Item("left", m.left), Item("right", m.right), Item("op", OperatorType(m.op)) }

Operands == {"ip length", "1000"}

NewMatch(left, op, right) ==
    /\ match' = NFTablesMatch_init(left, op, right)
    /\ UNCHANGED <<desc, kernel, last, torn, stmt>>

MatchConvert ==
    /\ match.phase = "constructed"
    /\ match' = [match EXCEPT !.phase = "converted",
                              !.dict = NFTablesMatch_convert_to_dict(match)]
    /\ UNCHANGED <<desc, kernel, last, torn, stmt>>

-----------------------------------------------------------------------------
(* NFTablesStatement *)

StatementNames ==
    {"ACCEPT", "DROP", "QUEUE", "CONTINUE", "RETURN", "JUMP", "GOTO", "REJECT",
     "COUNTER", "LIMIT", "DNAT", "SNAT", "MASQUERADE"}

\* one member's value; needs_extra is Python's True, False or None
StatementValue(name, needs_extra) == [name |-> name, needs_extra |-> needs_extra]

\* NFTablesStatement.StatementType: member name -> value
StatementType(s_type) ==
    CASE s_type = "ACCEPT"     -> StatementValue("accept", "False")
      [] s_type = "DROP"       -> StatementValue("drop", "False")
      [] s_type = "QUEUE"      -> StatementValue("accept", "None")
      [] s_type = "CONTINUE"   -> StatementValue("continue", "False")
      [] s_type = "RETURN"     -> StatementValue("return", "False")
      [] s_type = "JUMP"       -> StatementValue("jump", "True")
      [] s_type = "GOTO"       -> StatementValue("goto", "True")
      [] s_type = "REJECT"     -> StatementValue("reject", "None")
      [] s_type = "COUNTER"    -> StatementValue("counter", "None")
      [] s_type = "LIMIT"      -> StatementValue("limit", "True")
      [] s_type = "DNAT"       -> StatementValue("dnat", "True")
      [] s_type = "SNAT"       -> StatementValue("snat", "True")
      [] s_type = "MASQUERADE" -> StatementValue("masquerade", "False")

\* NFTablesStatement.__init__: the constructed object, or the ValueError
NFTablesStatement_init(s_type, extra) ==
    IF StatementType(s_type).needs_extra # "False" /\ extra = None
       THEN [phase |-> "ValueError", s_type |-> s_type, extra |-> extra, dict |-> {}]
    ELSE IF StatementType(s_type).needs_extra = "False" /\ extra # None
       THEN [phase |-> "ValueError", s_type |-> s_type, extra |-> extra, dict |-> {}]
    ELSE [phase |-> "constructed", s_type |-> s_type, extra |-> extra, dict |-> {}]

NFTablesStatement_convert_to_dict(st) ==
    { Item(StatementType(st.s_type).name, st.extra) }

Extras == { None, Some("with icmpv6 type no-route"), Some("to 192.168.1.1") }

NewStatement(s_type, extra) ==
    /\ stmt' = NFTablesStatement_init(s_type, extra)
    /\ UNCHANGED <<desc, kernel, last, torn, match>>

StatementConvert ==
    /\ stmt.phase = "constructed"
    /\ stmt' = [stmt EXCEPT !.phase = "converted",
                            !.dict = NFTablesStatement_convert_to_dict(stmt)]
    /\ UNCHANGED <<desc, kernel, last, torn, match>>

-----------------------------------------------------------------------------
(* Specifications *)

\* the teardown history is not recorded
NoHistory == UNCHANGED torn

\* the descriptors torn down so far, after a step that made the call in c:
\* a delete_interface() that found and deleted the interface tears down, and
\* a released object has no history
Track(c) ==
    IF c.op = "delete_interface" /\ c.ok /\ Len(c.log) = 2 THEN torn \cup {c.d}
    ELSE IF c.op = "__del__" THEN torn \ {c.d}
    ELSE torn

Recorded == torn' = Track(last')

\* the calls the program makes on its descriptors
Next ==
    \E d \in Desc :
        \/ \E auto_name \in BOOLEAN : Construct(d, auto_name) /\ NoHistory
        \/ \E ifname \in ExplicitNames : SetIfname(d, ifname) /\ NoHistory
        \/ setup_interface(d) /\ NoHistory
        \/ delete_interface(d) /\ NoHistory
        \/ is_peer_alive(d) /\ NoHistory
        \/ Release(d) /\ NoHistory

\* the program alone on the host
Spec == Init /\ [][Next]_vars

DriftNext ==
    \/ Next
    \/ \E d \in Desc : Vanish(d)

\* the program on a host where the interfaces it set up may vanish
SpecDrift == Init /\ [][DriftNext]_vars

HistoryNext ==
    \E d \in Desc :
        \/ \E auto_name \in BOOLEAN : Construct(d, auto_name) /\ Recorded
        \/ \E ifname \in ExplicitNames : SetIfname(d, ifname) /\ Recorded
        \/ setup_interface(d) /\ Recorded
        \/ delete_interface(d) /\ Recorded
        \/ is_peer_alive(d) /\ Recorded
        \/ Release(d) /\ Recorded

\* the program alone on the host, with the teardown history recorded
SpecHistory == Init /\ [][HistoryNext]_vars

PeerNext ==
    \/ Next
    \/ \E l \in kernel, t \in HandshakeTimes : PeerHandshake(l, t)

\* the program on a host where the peers of its tunnels complete handshakes
SpecPeer == Init /\ [][PeerNext]_vars

HostNext ==
    \/ \E ifname \in ForeignNames : ExternalCreate(ifname)
    \/ \E l \in kernel : ExternalDelete(l)
    \/ \E l \in kernel, t \in HandshakeTimes : PeerHandshake(l, t)

EnvNext == Next \/ HostNext

\* the program on a host where other actors create and delete interfaces
SpecEnv == Init /\ [][EnvNext]_vars

RulesInit ==
    /\ desc = [d \in Desc |-> Unconstructed]
    /\ kernel = {}
    /\ last = NoCall
    /\ torn = {}
    /\ RulesIdle

RulesNext ==
    \/ \E s_type \in StatementNames, extra \in Extras : NewStatement(s_type, extra)
    \/ StatementConvert
    \/ \E left \in Operands, op \in OperatorNames, right \in Operands :
           NewMatch(left, op, right)
    \/ MatchConvert

\* the rule primitives: value objects, independent of the tunnels
SpecRules == RulesInit /\ [][RulesNext]_vars

-----------------------------------------------------------------------------
(* Properties *)

\* the number of registry entries carrying the name of descriptor d
NamedLike(d) == Cardinality(link_lookup(kernel, desc[d].ifname))

\* the step just taken was the call op on descriptor d
Called(op, d) == last'.op = op /\ last'.d = d

\* C1 as stated: after a successful setup_interface() the registry holds
\* exactly one interface named ifname and interface_created is true; after
\* any delete_interface() that returns without error it holds none and
\* interface_created is false.
C1_AsStated ==
    [][\A d \in Desc :
          /\ (Called("setup_interface", d) /\ last'.ok)
                => (NamedLike(d)' = 1 /\ desc'[d].interface_created = TRUE)
          /\ (Called("delete_interface", d) /\ last'.ok)
                => (NamedLike(d)' = 0 /\ desc'[d].interface_created = FALSE)]_vars

\* C1, amended: after a successful setup_interface() the registry holds
\* exactly one interface named ifname and interface_created is true; after a
\* delete_interface() that was called with interface_created true and returns
\* without error it holds none and interface_created is false.
C1_Lifecycle ==
    [][\A d \in Desc :
          /\ (Called("setup_interface", d) /\ last'.ok)
                => (NamedLike(d)' = 1 /\ desc'[d].interface_created = TRUE)
          /\ (Called("delete_interface", d) /\ last'.ok
                /\ desc[d].interface_created = TRUE)
                => (NamedLike(d)' = 0 /\ desc'[d].interface_created = FALSE)]_vars

\* a descriptor was set up and then torn down by a delete_interface() that
\* found and deleted its interface
C1_Witness ==
    /\ last.op = "delete_interface"
    /\ last.ok
    /\ Len(last.log) = 2
    /\ desc[last.d].interface_created = FALSE
    /\ NamedLike(last.d) = 0

\* C2: delete_interface() on a descriptor whose interface_created is false
\* (directly, or through __del__) raises nothing, makes no kernel call (no
\* lookup, no deletion), leaves the registry as it was and leaves
\* interface_created false.
C2_TeardownIdempotent ==
    [][\A d \in Desc :
          ((Called("delete_interface", d) \/ Called("__del__", d))
             /\ desc[d].interface_created = FALSE)
          => /\ last'.ok
             /\ last'.log = <<>>
             /\ kernel' = kernel
             /\ desc'[d].interface_created = FALSE]_vars

\* a further teardown of a descriptor that was set up and torn down: the
\* delete_interface() just made was a no-op
C2_Witness ==
    /\ last.op = "delete_interface"
    /\ last.ok
    /\ last.log = <<>>
    /\ last.d \in torn
    /\ desc[last.d].interface_created = FALSE
    /\ NamedLike(last.d) = 0

\* the links of the registry that descriptor d's setup_interface() created
LinksOf(d) == { l \in kernel : l.creator = CreatedBy(d) }

\* C3 as stated: once a descriptor has been released (and the kernel did
\* not refuse the deletion), no kernel interface it created still exists.
C3_NoLeakAfterRelease ==
    (last.op = "__del__" /\ last.err # "link_delete") => LinksOf(last.d) = {}

\* C4: a setup_interface() that fails reports the error and leaves
\* interface_created as it was (false stays false); interface_created goes
\* from false to true only in a setup_interface() that made every call, in
\* order, without an error.
C4_FailedSetupKeepsFlag ==
    [][\A d \in Desc :
          /\ (Called("setup_interface", d) /\ last'.err # "")
                => /\ ~last'.ok
                   /\ desc'[d].interface_created = desc[d].interface_created
          /\ (desc[d].interface_created = FALSE /\ desc'[d].interface_created = TRUE)
                => /\ Called("setup_interface", d)
                   /\ last'.ok
                   /\ last'.log = SetupSteps(desc[d])]_vars

\* a setup failed at its last call, the WireGuard configuration, and the
\* descriptor is not marked created
C4_Witness ==
    /\ last.op = "setup_interface"
    /\ ~last.ok
    /\ last.err = "wg_set"
    /\ desc[last.d].interface_created = FALSE

\* C5: a live descriptor with interface_created true has a kernel interface
\* named ifname in the registry.
C5_CreatedHasInterface ==
    \A d \in Desc :
        (desc[d].phase = "live" /\ desc[d].interface_created = TRUE)
            => NamedLike(d) >= 1

\* two descriptors carry the same name, one of them is set up, and a call on
\* the other has just been made
C5_Witness ==
    \E d, e \in Desc :
        /\ d # e
        /\ desc[d].phase = "live" /\ desc[e].phase = "live"
        /\ desc[d].ifname = desc[e].ifname
        /\ desc[d].interface_created = TRUE
        /\ last.d = e
        /\ last.op \in {"setup_interface", "delete_interface", "is_peer_alive"}

\* C6 as stated: a setup_interface() on a descriptor that was set up and
\* torn down is refused: it fails, creates no kernel interface and leaves
\* interface_created false.
C6_AsStated ==
    [][\A d \in torn :
          Called("setup_interface", d)
          => /\ ~last'.ok
             /\ kernel' = kernel
             /\ desc'[d].interface_created = FALSE]_vars

\* C6, amended: the lifecycle is UNCREATED -> CREATED -> UNCREATED.
\* setup_interface() is refused (it fails at the creation, creates nothing,
\* leaves the flag) while the descriptor is CREATED, because the interface
\* exists; on a descriptor that was torn down it is accepted, and when every
\* call succeeds it creates the interface again and sets interface_created
\* true.
C6_Reusable ==
    [][\A d \in Desc :
          Called("setup_interface", d)
          => /\ desc[d].interface_created = TRUE
                  => /\ ~last'.ok
                     /\ last'.err = "create"
                     /\ kernel' = kernel
                     /\ desc'[d].interface_created = TRUE
             /\ (d \in torn /\ desc[d].interface_created = FALSE /\ last'.err = "")
                  => /\ last'.ok
                     /\ LinksOf(d)' # {}
                     /\ NamedLike(d)' = 1
                     /\ desc'[d].interface_created = TRUE]_vars

\* a descriptor that was torn down has been set up again
C6_Witness ==
    /\ last.op = "setup_interface"
    /\ last.ok
    /\ last.d \in torn
    /\ desc[last.d].interface_created = TRUE
    /\ LinksOf(last.d) # {}

\* C7: delete_interface() on a descriptor with interface_created true whose
\* interface is not in the registry fails with the RuntimeError, deletes
\* nothing and leaves interface_created true.
C7_MissingInterface ==
    [][\A d \in Desc :
          (Called("delete_interface", d)
             /\ desc[d].interface_created = TRUE /\ NamedLike(d) = 0)
          => /\ ~last'.ok
             /\ last'.err = "RuntimeError"
             /\ last'.log = << Call("link_lookup", desc[d].ifname) >>
             /\ kernel' = kernel
             /\ desc'[d].interface_created = TRUE]_vars

\* the teardown of a set-up descriptor has just failed because its interface
\* had vanished, while other interfaces exist
C7_Witness ==
    /\ last.op = "delete_interface"
    /\ last.err = "RuntimeError"
    /\ desc[last.d].interface_created = TRUE
    /\ NamedLike(last.d) = 0
    /\ kernel # {}

\* the name basename + k
Numbered(k) == getbasename \o ToString(k)

Present(k) == link_lookup(kernel, Numbered(k)) # {}

\* C8: a descriptor constructed with automatic naming gets basename + k for
\* the smallest k >= 0 such that no interface named basename + k exists; the
\* allocator looked up basename + 0, ..., basename + k, one lookup each, in
\* that order; the name it returns is not the name of an existing interface.
\* (The constructor leaves the registry alone, so the registry after it is
\* the registry the lookups saw.)
C8_FirstFreeName ==
    (last.op = "__init__" /\ last.log # <<>>)
    => LET k == Len(last.log) - 1
       IN  /\ desc[last.d].ifname = Numbered(k)
           /\ \A j \in 0..(k - 1) : Present(j)
           /\ ~Present(k)
           /\ last.log = [i \in 1..(k + 1) |-> Call("link_lookup", Numbered(i - 1))]

\* sown-wg0 and sown-wg1 exist, sown-wg2 does not, and the allocator has
\* just returned sown-wg2
C8_Witness ==
    /\ last.op = "__init__"
    /\ desc[last.d].ifname = "sown-wg2"
    /\ Present(0) /\ Present(1) /\ ~Present(2)
    /\ Len(last.log) = 3

\* the argument policy of a statement kind, from needs_extra:
\* True is required, False is forbidden, None is optional
Policy(s_type) ==
    CASE StatementType(s_type).needs_extra = "True"  -> "required"
      [] StatementType(s_type).needs_extra = "False" -> "forbidden"
      [] StatementType(s_type).needs_extra = "None"  -> "optional"

\* C9 as stated: the construction of a statement fails exactly when the
\* policy of its kind is required and extra is absent, or the policy is
\* forbidden and extra is present.
C9_AsStated ==
    stmt.phase # "none"
    => ((stmt.phase = "ValueError")
          <=> \/ (Policy(stmt.s_type) = "required" /\ stmt.extra = None)
              \/ (Policy(stmt.s_type) = "forbidden" /\ stmt.extra # None))

\* the lowercase name of a statement kind
KindName(s_type) ==
    CASE s_type = "ACCEPT"     -> "accept"
      [] s_type = "DROP"       -> "drop"
      [] s_type = "QUEUE"      -> "queue"
      [] s_type = "CONTINUE"   -> "continue"
      [] s_type = "RETURN"     -> "return"
      [] s_type = "JUMP"       -> "jump"
      [] s_type = "GOTO"       -> "goto"
      [] s_type = "REJECT"     -> "reject"
      [] s_type = "COUNTER"    -> "counter"
      [] s_type = "LIMIT"      -> "limit"
      [] s_type = "DNAT"       -> "dnat"
      [] s_type = "SNAT"       -> "snat"
      [] s_type = "MASQUERADE" -> "masquerade"

\* C10 as stated: convert_to_dict() of a constructed statement is the
\* single-item mapping from the lowercase name of the statement's own kind
\* to the extra it was constructed with.
C10_AsStated ==
    stmt.phase = "converted"
    => stmt.dict = { Item(KindName(stmt.s_type), stmt.extra) }

\* the short textual code of an operator
OperatorCode(op) ==
    CASE op = "EQUAL"         -> "eq"
      [] op = "NOT_EQUAL"     -> "ne"
      [] op = "LESS_THAN"     -> "lt"
      [] op = "GREATER_THAN"  -> "gt"
      [] op = "LESS_EQUAL"    -> "le"
      [] op = "GREATER_EQUAL" -> "ge"
      [] op = "NONE"          -> ""

\* C11: convert_to_dict() of a match constructed from left, op, right returns
\* exactly {left: left, right: right, op: code(op)}, for every operator (the
\* NONE operator gives the empty string), with left and right not exchanged,
\* and leaves the fields of the match object as they were.
C11_MatchToDict ==
    [][(match.phase = "constructed" /\ match'.phase = "converted")
         => /\ match'.dict = { Item("left", match.left),
                               Item("right", match.right),
                               Item("op", OperatorCode(match.op)) }
            /\ Cardinality(match'.dict) = 3
            /\ match'.left = match.left
            /\ match'.op = match.op
            /\ match'.right = match.right]_vars

\* the match of the test, with two different operands, has been converted
C11_Witness ==
    /\ match.phase = "converted"
    /\ match.left = "ip length"
    /\ match.op = "EQUAL"
    /\ match.right = "1000"
    /\ match.dict = { Item("left", "ip length"), Item("right", "1000"),
                      Item("op", "eq") }

\* the link the calls of descriptor d reach through its ifname
LinkNamed(d) == FirstOf(link_lookup(kernel, desc[d].ifname))

\* the most recent call was an is_peer_alive() that returned, having read the
\* clock at the moment now
ReturnedAt(now) ==
    /\ last.op = "is_peer_alive"
    /\ last.ok
    /\ Len(last.log) = 2
    /\ last.log[2] = Call("now", ToString(now))

\* C12: for every whole-second current time now and last-handshake time h of
\* the tunnel's single peer, is_peer_alive() returns true if and only if
\* now - h <= 300: true at an age of 299 and of exactly 300, false at 301.
C12_AliveWithinDeadTime ==
    \A now \in Nows :
        ReturnedAt(now)
        => LET h == LinkNamed(last.d).peer[1]
           IN  /\ last.ret \in {"True", "False"}
               /\ (last.ret = "True") <=> (now - h <= 300)
               /\ (now - h = 299) => last.ret = "True"
               /\ (now - h = 300) => last.ret = "True"
               /\ (now - h = 301) => last.ret = "False"

\* the peer handshaked exactly 300 seconds before the clock was read, and
\* is_peer_alive() returned true
C12_Witness ==
    \E now \in Nows :
        /\ ReturnedAt(now)
        /\ LinkNamed(last.d).peer # Some(NeverHandshaked)
        /\ now - LinkNamed(last.d).peer[1] = 300
        /\ last.ret = "True"

\* the peer of descriptor d's interface has completed a handshake
Handshaked(d) ==
    /\ link_lookup(kernel, desc[d].ifname) # {}
    /\ LinkNamed(d).peer # None
    /\ LinkNamed(d).peer[1] \in HandshakeTimes

\* C13: after a successful setup_interface() and before the peer has ever
\* completed a handshake, is_peer_alive() returns false: it returns a value,
\* it does not raise.
C13_NoHandshakeYet ==
    (last.op = "is_peer_alive"
       /\ desc[last.d].interface_created = TRUE
       /\ ~Handshaked(last.d))
    => /\ last.ok
       /\ last.err = ""
       /\ last.ret = "False"

\* is_peer_alive() has just returned false on a set-up descriptor whose
\* interface carries the configured peer with no handshake
C13_Witness ==
    /\ last.op = "is_peer_alive"
    /\ last.ok
    /\ last.ret = "False"
    /\ desc[last.d].interface_created = TRUE
    /\ LinksOf(last.d) # {}
    /\ LinkNamed(last.d).peer = Some(NeverHandshaked)

\* the interface of descriptor d has no peer record: d has no name, no
\* interface carries its name, or the interface has no peer configured
NoPeerRecord(d) ==
    \/ desc[d].ifname = NoName
    \/ link_lookup(kernel, desc[d].ifname) = {}
    \/ LinkNamed(d).peer = None

\* C14: when the tunnel's interface has no peer record (the tunnel was not
\* set up, or was torn down), is_peer_alive() fails with an error and
\* returns no value: it does not return false.
C14_NoPeerRecordFails ==
    (last.op = "is_peer_alive" /\ NoPeerRecord(last.d))
    => /\ ~last.ok
       /\ last.err \in {"AttributeError", "NoSuchDevice", "NoPeers"}
       /\ last.ret = ""

\* is_peer_alive() has just failed on a descriptor that was set up and torn
\* down: no interface carries its name
C14_Witness ==
    /\ last.op = "is_peer_alive"
    /\ ~last.ok
    /\ last.err = "NoSuchDevice"
    /\ last.d \in torn
    /\ desc[last.d].interface_created = FALSE
    /\ NamedLike(last.d) = 0

\* C15: is_peer_alive() is read-only: whether it returns true, returns false
\* or fails, it leaves interface_created, ifname and the address lists of
\* every descriptor and the set of kernel interfaces exactly as they were.
C15_ReadOnly ==
    [][\A d \in Desc :
          Called("is_peer_alive", d)
          => /\ kernel' = kernel
             /\ \A e \in Desc :
                   /\ desc'[e].interface_created = desc[e].interface_created
                   /\ desc'[e].ifname = desc[e].ifname
                   /\ desc'[e].local_addrs = desc[e].local_addrs
                   /\ desc'[e].peer_addrs = desc[e].peer_addrs]_vars

\* is_peer_alive() has just returned true, 299 seconds after the handshake,
\* and the descriptor is still set up with its interface in the registry
C15_Witness ==
    /\ ReturnedAt(1299)
    /\ last.ret = "True"
    /\ desc[last.d].interface_created = TRUE
    /\ LinksOf(last.d) # {}
    /\ Handshaked(last.d)

\* the positions of the log before position i that hold a call named name
Earlier(log, i, name) == { j \in 1..(i - 1) : log[j].call = name }

\* the addresses of local_addrs, as the kernel is given them
LocalTexts(dsc) ==
    { with_prefixlen(dsc.local_addrs[k]) : k \in 1..Len(dsc.local_addrs) }

\* C16: within one setup_interface() no local address is attached before
\* the interface was created, the interface is brought up only after every
\* address of local_addrs was attached, WireGuard is configured only after
\* the interface is up, a call is made only if the calls before it did not
\* fail, and interface_created becomes true only after the WireGuard
\* configuration succeeded.
C16_SetupOrder ==
    [][\A d \in Desc :
          Called("setup_interface", d)
          => LET log == last'.log
                 n   == Len(log)
             IN  /\ \A i \in 1..n :
                       /\ log[i].call = "add_ip" => Earlier(log, i, "create") # {}
                       /\ log[i].call = "set_up"
                             => { log[j].arg : j \in Earlier(log, i, "add_ip") }
                                   = LocalTexts(desc[d])
                       /\ log[i].call = "wg_set" => Earlier(log, i, "set_up") # {}
                 /\ (~last'.ok /\ n > 0) => log[n].call = last'.err
                 /\ (desc[d].interface_created = FALSE
                       /\ desc'[d].interface_created = TRUE)
                       => /\ last'.ok
                          /\ n > 0
                          /\ log[n].call = "wg_set"
                          /\ \E l \in LinksOf(d)' :
                                /\ l.up
                                /\ l.addrs = LocalTexts(desc[d])
                                /\ l.peer # None]_vars

\* a setup has just made all its calls: the creation, one attachment per
\* local address, the bringing up and the WireGuard configuration
C16_Witness ==
    /\ last.op = "setup_interface"
    /\ last.ok
    /\ Len(last.log) = Len(desc[last.d].local_addrs) + 3
    /\ Len(desc[last.d].local_addrs) = 2
    /\ last.log[Len(last.log)].call = "wg_set"
    /\ desc[last.d].interface_created = TRUE

\* descriptors d and e are two live objects carrying the same name
SameName(d, e) ==
    /\ d # e
    /\ desc[d].phase = "live"
    /\ desc[e].phase = "live"
    /\ desc[d].ifname # NoName
    /\ desc[d].ifname = desc[e].ifname

\* the interface named like descriptor e that e's setup_interface() created
Holds(e) == { l \in LinksOf(e) : l.ifname = desc[e].ifname }

\* C17: name allocation does not reserve the name, so two descriptors
\* constructed with automatic naming before either is set up receive the
\* same ifname.  Of the two setups at most one succeeds: a setup_interface()
\* of one of them, called while the interface the other's setup created
\* exists, fails at the creation of the interface, stays at
\* interface_created = false, and leaves the other's interface and
\* descriptor as they were.
C17_SameNameRace ==
    [][\A d, e \in Desc :
          (SameName(d, e) /\ Holds(e) # {} /\ Called("setup_interface", d))
          => /\ ~last'.ok
             /\ last'.err = "create"
             /\ desc[d].interface_created = FALSE
             /\ desc'[d].interface_created = FALSE
             /\ kernel' = kernel
             /\ desc'[e] = desc[e]]_vars

\* two descriptors were given the name sown-wg1 by the allocator (sown-wg0
\* exists); one is set up, and the setup of the other has just failed at the
\* creation
C17_Witness ==
    \E d, e \in Desc :
        /\ SameName(d, e)
        /\ desc[d].ifname = "sown-wg1"
        /\ Present(0)
        /\ desc[e].interface_created = TRUE
        /\ Holds(e) # {}
        /\ last.op = "setup_interface"
        /\ last.d = d
        /\ last.err = "create"
        /\ desc[d].interface_created = FALSE

\* no two live descriptors with the same name are both marked created
ExclusiveFlags ==
    \A d, e \in Desc :
        SameName(d, e)
        => ~(desc[d].interface_created = TRUE /\ desc[e].interface_created = TRUE)

\* the live descriptors other than d that are marked created and carry the
\* name of link l
OwnersBeside(d, l) ==
    { e \in Desc \ {d} :
        /\ desc[e].phase = "live"
        /\ desc[e].interface_created = TRUE
        /\ desc[e].ifname = l.ifname }

\* C18: exclusive ownership.  At no time do two distinct descriptors with
\* the same ifname both have interface_created true, and a
\* delete_interface() or a release of one descriptor never deletes a kernel
\* interface for which a different descriptor has interface_created true.
C18_ExclusiveOwnership ==
    [][/\ ExclusiveFlags
       /\ ExclusiveFlags'
       /\ \A d \in Desc :
             (Called("delete_interface", d) \/ Called("__del__", d))
             => \A l \in kernel \ kernel' : OwnersBeside(d, l) = {}]_vars

\* two descriptors carry the same name and one of them is set up; a
\* delete_interface() of the other has just returned, and the interface of
\* the first is still in the registry
C18_Witness ==
    \E d, e \in Desc :
        /\ SameName(d, e)
        /\ desc[e].interface_created = TRUE
        /\ Holds(e) # {}
        /\ last.op = "delete_interface"
        /\ last.d = d
        /\ last.ok
        /\ desc[d].interface_created = FALSE

\* the suffixes the names of the registry can carry
Suffixes == 0..(Cardinality(ForeignNames) + NumDesc)

\* the existing interfaces named basename + k
NumberedLinks == { l \in kernel : \E k \in Suffixes : l.ifname = Numbered(k) }

\* C19: name allocation terminates and changes nothing in the kernel: the
\* construction of a descriptor makes at most (number of existing
\* interfaces named basename + k) + 1 lookups and no other kernel call,
\* leaves the registry as it was, and the constructed descriptor has
\* interface_created false.
C19_AllocationBounded ==
    [][\A d \in Desc :
          Called("__init__", d)
          => /\ Len(last'.log) <= Cardinality(NumberedLinks) + 1
             /\ \A i \in 1..Len(last'.log) : last'.log[i].call = "link_lookup"
             /\ kernel' = kernel
             /\ desc'[d].phase = "live"
             /\ desc'[d].interface_created = FALSE]_vars

\* a descriptor has just been constructed with automatic naming while an
\* interface set up by another descriptor exists: the allocator made one
\* lookup per existing numbered interface and one more
C19_Witness ==
    /\ last.op = "__init__"
    /\ \E e \in Desc \ {last.d} : LinksOf(e) # {}
    /\ Len(last.log) = Cardinality(NumberedLinks) + 1
    /\ Len(last.log) >= 2
    /\ desc[last.d].interface_created = FALSE

====
